---- MODULE Spec2Model ----
(***************************************************************************)
(* k8s-secret-compare (src/main.go): compares the stringData of local      *)
(* Secret manifests with the data of the deployed secrets and reports the  *)
(* per-key differences, two copy-paste snippets and an exit status.        *)
(*                                                                         *)
(* Strings that the program only compares or prints as a whole (kinds,     *)
(* names, namespaces, keys) are TLA+ strings.  Secret values, which        *)
(* formatYAMLValue takes apart, are sequences of one-character strings.    *)
(* A Go pointer is a sequence of length 0 (nil) or 1 (the pointee).        *)
(* A Go map is a function whose DOMAIN is the set of its keys.             *)
(***************************************************************************)
EXTENDS Integers, Sequences, FiniteSets, TLC

VARIABLES
    pc,                     \* position of main
    nPatterns,              \* len(patterns), the result of parsePatterns
    patIdx,                 \* index of the pattern the glob loop is at
    files,                  \* files (main.go:75)
    fileIdx,                \* index of the file loop (main.go:92)
    decoded,                \* documents the decoder has returned for the current file
    localSecrets,           \* localSecrets (main.go:96); secrets while parsing
    secIdx,                 \* index of the secret loop (main.go:102)
    deployedSecret,         \* deployedSecret (main.go:106), a pointer
    fetchOutcome,           \* outcome of the last call of getDeployedSecret
    differences,            \* differences (main.go:113)
    globalDifferencesFound, \* main.go:90
    report,                 \* lines printed for the resource reported last
    summary,                \* summary lines printed
    exitStatus,             \* process exit status, a pointer: <<>> while running
    exitKind,               \* how the process ended
    cluster,                \* the deployed secrets, by <<namespace, name>>
    diffSeen,               \* history: some call of compareSecrets returned a non-empty sequence
    fn,                     \* the call of a pure function under check
    fnResult,               \* its result, a pointer
    hist                    \* history: matches and reads per file name, fetches per
                            \* secret of the current file, steps on the current secret

vars == <<pc, nPatterns, patIdx, files, fileIdx, decoded, localSecrets, secIdx,
          deployedSecret, fetchOutcome, differences, globalDifferencesFound,
          report, summary, exitStatus, exitKind, cluster, diffSeen, fn, fnResult, hist>>

progVars == <<pc, nPatterns, patIdx, files, fileIdx, decoded, localSecrets, secIdx,
              deployedSecret, fetchOutcome, differences, globalDifferencesFound,
              report, summary, exitStatus, exitKind, cluster, diffSeen, hist>>

----------------------------------------------------------------------------
(* Bounds *)

MaxLen == 3         \* longest value given to formatYAMLValue on its own
MaxPatterns == 2    \* most patterns on the command line
MaxDocs == 2        \* most documents the decoder returns for one file

NL == "\n"
QUOTE == "\""
BACKSLASH == "\\"
SPACE == " "

Alphabet == {"a", NL, QUOTE, SPACE, BACKSLASH}

Strings(n) == UNION {[1..k -> Alphabet] : k \in 0..n}

\* the files of the scan directory
FileNames == {"kube-secret-staging.yaml"}

Kinds == {"Secret", "ConfigMap"}
Names == {"", "db", "cache"}
Namespaces == {"", "prod"}
Keys == {"A", "B"}

\* values of the maps: a plain one, and a multi-line one with a quote
MapValues == {<<"a">>, <<"a", NL, QUOTE>>}

Maps == UNION {[D -> MapValues] : D \in SUBSET Keys}

\* the stringData of the documents of a run: values are only compared with
\* the deployed ones, which range over MapValues
LocalValues == {<<"a">>}

LocalMaps == UNION {[D -> LocalValues] : D \in SUBSET Keys}

EmptyMap == [k \in {} |-> <<>>]

----------------------------------------------------------------------------
(* strings *)

Contains(s, c) == \E i \in DOMAIN s : s[i] = c

\* strings.Split(s, sep) for a one-character separator
RECURSIVE Split(_, _)
Split(s, sep) ==
    IF ~Contains(s, sep) THEN <<s>>
    ELSE LET i == CHOOSE j \in DOMAIN s :
                      s[j] = sep /\ \A h \in 1..(j - 1) : s[h] # sep
         IN <<SubSeq(s, 1, i - 1)>> \o Split(SubSeq(s, i + 1, Len(s)), sep)

\* strings.Join(elems, sep)
RECURSIVE Join(_, _)
Join(elems, sep) ==
    IF Len(elems) = 0 THEN <<>>
    ELSE IF Len(elems) = 1 THEN elems[1]
    ELSE elems[1] \o sep \o Join(Tail(elems), sep)

\* strings.ReplaceAll(s, old, new) for a one-character old
RECURSIVE ReplaceAll(_, _, _)
ReplaceAll(s, old, new) ==
    IF Len(s) = 0 THEN <<>>
    ELSE (IF Head(s) = old THEN new ELSE <<Head(s)>>) \o ReplaceAll(Tail(s), old, new)

Indent == <<SPACE, SPACE, SPACE, SPACE>>

\* formatYAMLValue had it indented the value as a whole instead of line by line
formatYAMLValueUnsplit(value) ==
    IF Contains(value, NL)
    THEN <<"|", "-", NL>> \o Indent \o value
    ELSE <<QUOTE>> \o ReplaceAll(value, QUOTE, <<BACKSLASH, QUOTE>>) \o <<QUOTE>>

\* formatYAMLValue had it escaped the backslashes as well
formatYAMLValueEscapesBackslash(value) ==
    IF Contains(value, NL)
    THEN LET lines == Split(value, NL)
             formattedLines == [i \in 1..Len(lines) |-> Indent \o lines[i]]
         IN <<"|", "-", NL>> \o Join(formattedLines, <<NL>>)
    ELSE LET escapedValue == ReplaceAll(ReplaceAll(value, BACKSLASH, <<BACKSLASH, BACKSLASH>>),
                                        QUOTE, <<BACKSLASH, QUOTE>>)
         IN <<QUOTE>> \o escapedValue \o <<QUOTE>>

formatYAMLValue(value) ==
    IF Contains(value, NL)
    THEN LET lines == Split(value, NL)
             formattedLines == [i \in 1..Len(lines) |-> Indent \o lines[i]]
         IN <<"|", "-", NL>> \o Join(formattedLines, <<NL>>)
    ELSE LET escapedValue == ReplaceAll(value, QUOTE, <<BACKSLASH, QUOTE>>)
         IN <<QUOTE>> \o escapedValue \o <<QUOTE>>

----------------------------------------------------------------------------
(* data *)

Nil == <<>>
Ref(x) == <<x>>
Deref(p) == p[1]

\* KubernetesSecret (main.go:24) as the decoder fills it in
Docs == [Kind : Kinds,
         Metadata : [Name : Names, Namespace : Namespaces],
         StringData : LocalMaps]

\* the objects the API server can hold: a v1.Secret whose stringData, a
\* write-only field, comes back empty
Identities == (Namespaces \ {""}) \X (Names \ {""})

Objects(id) == {[Name |-> id[2], Namespace |-> id[1], Data |-> m, StringData |-> EmptyMap] :
                    m \in Maps}

Clusters == {c \in [Identities -> {Nil} \cup UNION {{Ref(o) : o \in Objects(id)} : id \in Identities}] :
                \A id \in Identities : c[id] # Nil => Deref(c[id]) \in Objects(id)}

\* the orders in which a range over a Go map with key set S can visit it
Orders(S) == {o \in [1..Cardinality(S) -> S] : \A i, j \in DOMAIN o : o[i] = o[j] => i = j}

ExitSuccess == 0        \* os.Exit(0), and the return of main
ExitDifferences == 1    \* os.Exit(1)
ExitFatal == 1          \* log.Fatalf: os.Exit(1)
ExitPanic == 2          \* the Go runtime on an unrecovered panic

----------------------------------------------------------------------------
(* compareSecrets *)

\* the loop body without its third branch: unequal values go unreported
compareKeyPresenceOnly(local, deployed, key) ==
    LET localExists == key \in DOMAIN local.StringData
        deployedExists == key \in DOMAIN deployed.Data
    IN  IF ~localExists /\ deployedExists
        THEN <<[Key |-> key, Local |-> Nil, Deployed |-> Ref(deployed.Data[key])]>>
        ELSE IF localExists /\ ~deployedExists
        THEN <<[Key |-> key, Local |-> Ref(local.StringData[key]), Deployed |-> Nil]>>
        ELSE <<>>

\* the loop body with the value of a local-only key stored as the deployed one
compareKeySwapped(local, deployed, key) ==
    LET localExists == key \in DOMAIN local.StringData
        deployedExists == key \in DOMAIN deployed.Data
    IN  IF ~localExists /\ deployedExists
        THEN <<[Key |-> key, Local |-> Nil, Deployed |-> Ref(deployed.Data[key])]>>
        ELSE IF localExists /\ ~deployedExists
        THEN <<[Key |-> key, Local |-> Nil, Deployed |-> Ref(local.StringData[key])]>>
        ELSE IF localExists /\ deployedExists /\ local.StringData[key] # deployed.Data[key]
        THEN <<[Key |-> key, Local |-> Ref(local.StringData[key]),
                Deployed |-> Ref(deployed.Data[key])]>>
        ELSE <<>>

\* the loop body with the third branch taken whenever both maps have the key
compareKeyNoEquality(local, deployed, key) ==
    LET localExists == key \in DOMAIN local.StringData
        deployedExists == key \in DOMAIN deployed.Data
    IN  IF ~localExists /\ deployedExists
        THEN <<[Key |-> key, Local |-> Nil, Deployed |-> Ref(deployed.Data[key])]>>
        ELSE IF localExists /\ ~deployedExists
        THEN <<[Key |-> key, Local |-> Ref(local.StringData[key]), Deployed |-> Nil]>>
        ELSE IF localExists /\ deployedExists
        THEN <<[Key |-> key, Local |-> Ref(local.StringData[key]),
                Deployed |-> Ref(deployed.Data[key])]>>
        ELSE <<>>

\* the body of the loop over keysSet (main.go:316-340) for one key
compareKey(local, deployed, key) ==
    LET localExists == key \in DOMAIN local.StringData
        deployedExists == key \in DOMAIN deployed.Data
    IN  IF ~localExists /\ deployedExists
        THEN <<[Key |-> key, Local |-> Nil, Deployed |-> Ref(deployed.Data[key])]>>
        ELSE IF localExists /\ ~deployedExists
        THEN <<[Key |-> key, Local |-> Ref(local.StringData[key]), Deployed |-> Nil]>>
        ELSE IF localExists /\ deployedExists /\ local.StringData[key] # deployed.Data[key]
        THEN <<[Key |-> key, Local |-> Ref(local.StringData[key]),
                Deployed |-> Ref(deployed.Data[key])]>>
        ELSE <<>>

keysSet(local, deployed) == DOMAIN local.StringData \cup DOMAIN deployed.Data

\* compareSecrets when the range over keysSet visits the keys in the given order
RECURSIVE compareSecrets(_, _, _)
compareSecrets(local, deployed, order) ==
    IF Len(order) = 0 THEN <<>>
    ELSE compareKey(local, deployed, Head(order)) \o compareSecrets(local, deployed, Tail(order))

----------------------------------------------------------------------------
(* getDeployedSecret *)

\* decodedData (main.go:284-293): Data, overridden by StringData
decodedData(secret) ==
    [k \in DOMAIN secret.Data \cup DOMAIN secret.StringData |->
        IF k \in DOMAIN secret.StringData THEN secret.StringData[k] ELSE secret.Data[k]]

\* the Get of the client: apiFailure is an error other than not-found
getDeployedSecret(c, namespace, name, apiFailure) ==
    IF apiFailure THEN [secret |-> Nil, err |-> TRUE]
    ELSE IF <<namespace, name>> \notin DOMAIN c \/ c[<<namespace, name>>] = Nil
    THEN [secret |-> Nil, err |-> FALSE]
    ELSE LET secret == Deref(c[<<namespace, name>>])
         IN [secret |-> Ref([Name |-> secret.Name, Namespace |-> secret.Namespace,
                              Data |-> decodedData(secret)]),
             err |-> FALSE]

----------------------------------------------------------------------------
(* parseYAMLSecrets *)

\* the checks without the one on stringData
AdmittedWithoutData(secret) ==
    /\ secret.Kind = "Secret"
    /\ secret.Metadata.Name # ""
    /\ secret.Metadata.Namespace # ""

\* the required-field checks of one decoded document (main.go:248-264)
Admitted(secret) ==
    /\ secret.Kind = "Secret"
    /\ secret.Metadata.Name # ""
    /\ secret.Metadata.Namespace # ""
    /\ Cardinality(DOMAIN secret.StringData) # 0

\* the decode loop (main.go:237-267) over the documents the decoder returns
RECURSIVE decodeLoop(_, _)
decodeLoop(secrets, docs) ==
    IF Len(docs) = 0 THEN secrets
    ELSE decodeLoop(IF Admitted(Head(docs)) THEN Append(secrets, Head(docs)) ELSE secrets,
                    Tail(docs))

\* parseYAMLSecrets on a file the decoder reads as docs and then either ends
\* (io.EOF) or fails on (undecodable): the error discards what was admitted
parseYAMLSecrets(docs, undecodable) ==
    IF undecodable THEN [secrets |-> <<>>, err |-> TRUE]
    ELSE [secrets |-> decodeLoop(<<>>, docs), err |-> FALSE]

----------------------------------------------------------------------------
(* the report of one resource (main.go:116-163) *)

\* a printed line: <<what, name or key, namespace, value>>; the code fence of
\* three backquotes is written fence
Line(what, a, b, value) == <<what, a, b, value>>

\* the switch over one difference (main.go:126-139)
DiffBlock(diff) ==
    IF diff.Local # Nil /\ diff.Deployed # Nil
    THEN <<Line("[DIFFERENT]", diff.Key, "", <<>>),
           Line("Local:", "", "", Deref(diff.Local)),
           Line("Deployed:", "", "", Deref(diff.Deployed))>>
    ELSE IF diff.Local # Nil /\ diff.Deployed = Nil
    THEN <<Line("[ONLY IN LOCAL]", diff.Key, "", <<>>),
           Line("Value:", "", "", Deref(diff.Local))>>
    ELSE IF diff.Local = Nil /\ diff.Deployed # Nil
    THEN <<Line("[ONLY IN DEPLOYED]", diff.Key, "", <<>>),
           Line("Value:", "", "", Deref(diff.Deployed))>>
    ELSE <<>>

RECURSIVE DiffBlocks(_)
DiffBlocks(diffs) ==
    IF Len(diffs) = 0 THEN <<>> ELSE DiffBlock(Head(diffs)) \o DiffBlocks(Tail(diffs))

IsDifferent(diff) == diff.Local # Nil /\ diff.Deployed # Nil
IsOnlyDeployed(diff) == diff.Local = Nil /\ diff.Deployed # Nil

\* the last value the loop over diffs assigns to key in replaceLocalKeys
\* (different) or in missingLocalKeys (not different)
LastDeployed(diffs, key, different) ==
    LET Assigns(j) == /\ diffs[j].Key = key
                      /\ IF different THEN IsDifferent(diffs[j]) ELSE IsOnlyDeployed(diffs[j])
        i == CHOOSE j \in DOMAIN diffs :
                 Assigns(j) /\ \A h \in DOMAIN diffs : Assigns(h) => h <= j
    IN Deref(diffs[i].Deployed)

\* replaceLocalKeys had the loop stored the local value
replaceLocalKeysLocal(diffs) ==
    [k \in {diffs[i].Key : i \in {j \in DOMAIN diffs : IsDifferent(diffs[j])}} |->
        LET i == CHOOSE j \in DOMAIN diffs : diffs[j].Key = k /\ IsDifferent(diffs[j])
        IN Deref(diffs[i].Local)]

\* replaceLocalKeys after the loop (main.go:131)
replaceLocalKeys(diffs) ==
    [k \in {diffs[i].Key : i \in {j \in DOMAIN diffs : IsDifferent(diffs[j])}} |->
        LastDeployed(diffs, k, TRUE)]

\* missingLocalKeys after the loop (main.go:138)
missingLocalKeys(diffs) ==
    [k \in {diffs[i].Key : i \in {j \in DOMAIN diffs : IsOnlyDeployed(diffs[j])}} |->
        LastDeployed(diffs, k, FALSE)]

\* one fenced snippet (main.go:143-162); order is the order of the range over m
Snippet(heading, m, order) ==
    IF Cardinality(DOMAIN m) > 0
    THEN <<Line(heading, "", "", <<>>),
           Line("fence yaml", "", "", <<>>),
           Line("stringData:", "", "", <<>>)>>
         \o [i \in 1..Len(order) |-> Line("  key:", order[i], "", formatYAMLValue(m[order[i]]))]
         \o <<Line("fence", "", "", <<>>),
              Line("", "", "", <<>>)>>
    ELSE <<>>

MergeHeading == "Merge following key-value pairs into your local file to match deployed secrets:"
AddHeading == "Following should be added locally to make it match the deployed secrets:"

ReportLines(localSecret, diffs, replaceOrder, missingOrder) ==
    <<Line("===", localSecret.Metadata.Name, localSecret.Metadata.Namespace, <<>>)>> \o
    (IF Len(diffs) = 0
     THEN <<Line("All secrets match between the local file and the deployed Kubernetes secret.",
                 "", "", <<>>)>>
     ELSE <<Line("Differences found:", "", "", <<>>)>>
          \o DiffBlocks(diffs)
          \o Snippet(MergeHeading, replaceLocalKeys(diffs), replaceOrder)
          \o Snippet(AddHeading, missingLocalKeys(diffs), missingOrder))

----------------------------------------------------------------------------
(* main *)

NoCall == [op |-> "none"]

NoHistory == [matched |-> [f \in FileNames |-> 0], loaded |-> [f \in FileNames |-> 0],
              fetched |-> <<>>, steps |-> <<>>]

Init ==
    /\ pc = "client"
    /\ nPatterns \in 0..MaxPatterns
    /\ patIdx = 1
    /\ files = <<>>
    /\ fileIdx = 1
    /\ decoded = 0
    /\ localSecrets = <<>>
    /\ secIdx = 1
    /\ deployedSecret = Nil
    /\ fetchOutcome = "none"
    /\ differences = <<>>
    /\ globalDifferencesFound = FALSE
    /\ report = <<>>
    /\ summary = <<>>
    /\ exitStatus = Nil
    /\ exitKind = "running"
    /\ cluster \in Clusters
    /\ diffSeen = FALSE
    /\ fn = NoCall
    /\ fnResult = Nil
    /\ hist = NoHistory

\* log.Fatalf (main.go:70, main.go:79)
Fatal ==
    /\ pc' = "exited"
    /\ exitStatus' = Ref(ExitFatal)
    /\ exitKind' = "fatal"

\* main.go:68-71
CreateClient ==
    /\ pc = "client"
    /\ \E err \in BOOLEAN :
          IF err THEN Fatal
          ELSE pc' = "glob" /\ UNCHANGED <<exitStatus, exitKind>>
    /\ UNCHANGED <<nPatterns, patIdx, files, fileIdx, decoded, localSecrets, secIdx,
                   deployedSecret, fetchOutcome, differences, globalDifferencesFound,
                   report, summary, cluster, diffSeen, fn, fnResult, hist>>

\* filepath.Glob returns the names it matches in lexical order
FileOrder == <<"kube-secret-staging.yaml">>
Sorted(matched) == SelectSeq(FileOrder, LAMBDA f : f \in matched)

\* the loop over patterns keeping one entry per file name
GlobPatternDeduplicates ==
    /\ pc = "glob"
    /\ patIdx <= nPatterns
    /\ \/ /\ Fatal
          /\ UNCHANGED <<files, patIdx, hist>>
       \/ /\ \E matchedFiles \in SUBSET FileNames :
                /\ files' = files \o SelectSeq(Sorted(matchedFiles),
                                               LAMBDA f : \A i \in DOMAIN files : files[i] # f)
                /\ hist' = [hist EXCEPT !.matched =
                               [f \in FileNames |-> IF f \in matchedFiles THEN @[f] + 1 ELSE @[f]]]
          /\ patIdx' = patIdx + 1
          /\ UNCHANGED <<pc, exitStatus, exitKind>>
    /\ UNCHANGED <<nPatterns, fileIdx, decoded, localSecrets, secIdx,
                   deployedSecret, fetchOutcome, differences, globalDifferencesFound,
                   report, summary, cluster, diffSeen, fn, fnResult>>

\* one iteration of the loop over patterns (main.go:76-82)
GlobPattern ==
    /\ pc = "glob"
    /\ patIdx <= nPatterns
    /\ \/ /\ Fatal
          /\ UNCHANGED <<files, patIdx, hist>>
       \/ /\ \E matchedFiles \in SUBSET FileNames :
                /\ files' = files \o Sorted(matchedFiles)
                /\ hist' = [hist EXCEPT !.matched =
                               [f \in FileNames |-> IF f \in matchedFiles THEN @[f] + 1 ELSE @[f]]]
          /\ patIdx' = patIdx + 1
          /\ UNCHANGED <<pc, exitStatus, exitKind>>
    /\ UNCHANGED <<nPatterns, fileIdx, decoded, localSecrets, secIdx,
                   deployedSecret, fetchOutcome, differences, globalDifferencesFound,
                   report, summary, cluster, diffSeen, fn, fnResult>>

\* main.go:84-90
CheckFiles ==
    /\ pc = "glob"
    /\ patIdx > nPatterns
    /\ IF Len(files) = 0
       THEN /\ pc' = "exited"
            /\ exitStatus' = Ref(ExitSuccess)
            /\ exitKind' = "nofiles"
            /\ UNCHANGED globalDifferencesFound
       ELSE /\ pc' = "file"
            /\ globalDifferencesFound' = FALSE
            /\ UNCHANGED <<exitStatus, exitKind>>
    /\ UNCHANGED <<nPatterns, patIdx, files, fileIdx, decoded, localSecrets, secIdx,
                   deployedSecret, fetchOutcome, differences,
                   report, summary, cluster, diffSeen, fn, fnResult, hist>>

\* ioutil.ReadFile in parseYAMLSecrets (main.go:229-235); on an error main
\* logs it and goes on with the next file (main.go:97-100)
OpenFile ==
    /\ pc = "file"
    /\ fileIdx <= Len(files)
    /\ \E err \in BOOLEAN :
          IF err
          THEN /\ fileIdx' = fileIdx + 1
               /\ UNCHANGED <<pc, decoded, localSecrets>>
          ELSE /\ pc' = "decode"
               /\ decoded' = 0
               /\ localSecrets' = <<>>
               /\ UNCHANGED fileIdx
    /\ hist' = [hist EXCEPT !.loaded[files[fileIdx]] = @ + 1]
    /\ UNCHANGED <<nPatterns, patIdx, files, secIdx,
                   deployedSecret, fetchOutcome, differences, globalDifferencesFound,
                   report, summary, exitStatus, exitKind, cluster, diffSeen, fn, fnResult>>

\* one iteration of the decode loop that returns a document (main.go:237-267)
DecodeDocument ==
    /\ pc = "decode"
    /\ decoded < MaxDocs
    /\ \E secret \in Docs :
          localSecrets' = IF Admitted(secret) THEN Append(localSecrets, secret)
                          ELSE localSecrets
    /\ decoded' = decoded + 1
    /\ UNCHANGED <<pc, nPatterns, patIdx, files, fileIdx, secIdx,
                   deployedSecret, fetchOutcome, differences, globalDifferencesFound,
                   report, summary, exitStatus, exitKind, cluster, diffSeen, fn, fnResult, hist>>

\* the decoder fails on a document: parseYAMLSecrets returns nil and the
\* error (main.go:240-245), main goes on with the next file (main.go:97-100)
DecodeError ==
    /\ pc = "decode"
    /\ pc' = "file"
    /\ localSecrets' = <<>>
    /\ decoded' = 0
    /\ fileIdx' = fileIdx + 1
    /\ UNCHANGED <<nPatterns, patIdx, files, secIdx,
                   deployedSecret, fetchOutcome, differences, globalDifferencesFound,
                   report, summary, exitStatus, exitKind, cluster, diffSeen, fn, fnResult, hist>>

\* io.EOF: parseYAMLSecrets returns secrets (main.go:241-243, 269)
DecodeEOF ==
    /\ pc = "decode"
    /\ pc' = "secret"
    /\ secIdx' = 1
    /\ decoded' = 0
    /\ hist' = [hist EXCEPT !.fetched = [i \in DOMAIN localSecrets |-> 0], !.steps = <<>>]
    /\ UNCHANGED <<nPatterns, patIdx, files, fileIdx, localSecrets,
                   deployedSecret, fetchOutcome, differences, globalDifferencesFound,
                   report, summary, exitStatus, exitKind, cluster, diffSeen, fn, fnResult>>

\* the error branch with break in the place of continue
FetchFailedBreaks ==
    /\ fetchOutcome' = "error"
    /\ deployedSecret' = Nil
    /\ secIdx' = Len(localSecrets) + 1
    /\ UNCHANGED <<pc, globalDifferencesFound, exitStatus, exitKind>>

\* the fetch returned an error (main.go:107-110)
FetchFailed ==
    /\ fetchOutcome' = "error"
    /\ deployedSecret' = Nil
    /\ secIdx' = secIdx + 1
    /\ UNCHANGED <<pc, globalDifferencesFound, exitStatus, exitKind>>

\* the fetch returned no error, going to the report without the comparison
FetchedReportsFirst(secret) ==
    /\ deployedSecret' = secret
    /\ fetchOutcome' = IF secret = Nil THEN "notfound" ELSE "found"
    /\ pc' = "report"
    /\ UNCHANGED <<secIdx, globalDifferencesFound, exitStatus, exitKind>>

\* the fetch returned no error (main.go:106, 112)
Fetched(secret) ==
    /\ deployedSecret' = secret
    /\ fetchOutcome' = IF secret = Nil THEN "notfound" ELSE "found"
    /\ pc' = "compare"
    /\ UNCHANGED <<secIdx, globalDifferencesFound, exitStatus, exitKind>>

\* the start of one iteration, with an update of the deployed secret from
\* the local one in the place of the Get
FetchApplies ==
    /\ pc = "secret"
    /\ secIdx <= Len(localSecrets)
    /\ \E apiFailure \in BOOLEAN :
          LET localSecret == localSecrets[secIdx]
              got == getDeployedSecret(cluster, localSecret.Metadata.Namespace,
                                       localSecret.Metadata.Name, apiFailure)
          IN /\ IF got.err THEN FetchFailed
                ELSE Fetched(got.secret)
             /\ cluster' = [cluster EXCEPT
                   ![<<localSecret.Metadata.Namespace, localSecret.Metadata.Name>>] =
                       Ref([Name |-> localSecret.Metadata.Name,
                            Namespace |-> localSecret.Metadata.Namespace,
                            Data |-> localSecret.StringData,
                            StringData |-> EmptyMap])]
    /\ differences' = <<>>
    /\ report' = <<>>
    /\ hist' = [hist EXCEPT !.fetched[secIdx] = @ + 1, !.steps = <<"fetch">>]
    /\ UNCHANGED <<nPatterns, patIdx, files, fileIdx, decoded, localSecrets,
                   summary, diffSeen, fn, fnResult>>

\* the start of one iteration of the loop over localSecrets (main.go:102-110)
Fetch ==
    /\ pc = "secret"
    /\ secIdx <= Len(localSecrets)
    /\ \E apiFailure \in BOOLEAN :
          LET localSecret == localSecrets[secIdx]
              got == getDeployedSecret(cluster, localSecret.Metadata.Namespace,
                                       localSecret.Metadata.Name, apiFailure)
          IN IF got.err THEN FetchFailed
             ELSE Fetched(got.secret)
    /\ differences' = <<>>
    /\ report' = <<>>
    /\ hist' = [hist EXCEPT !.fetched[secIdx] = @ + 1, !.steps = <<"fetch">>]
    /\ UNCHANGED <<nPatterns, patIdx, files, fileIdx, decoded, localSecrets,
                   summary, cluster, diffSeen, fn, fnResult>>

\* the call of compareSecrets (main.go:113); deployed.Data of a nil deployed
\* (main.go:311) is a nil pointer dereference, which ends the process
Compare ==
    /\ pc = "compare"
    /\ IF deployedSecret = Nil
       THEN /\ pc' = "exited"
            /\ exitStatus' = Ref(ExitPanic)
            /\ exitKind' = "panic"
            /\ UNCHANGED <<differences, diffSeen>>
       ELSE /\ \E order \in Orders(keysSet(localSecrets[secIdx], Deref(deployedSecret))) :
                  differences' = compareSecrets(localSecrets[secIdx], Deref(deployedSecret), order)
            /\ diffSeen' = (diffSeen \/ Len(differences') > 0)
            /\ pc' = "report"
            /\ UNCHANGED <<exitStatus, exitKind>>
    /\ hist' = [hist EXCEPT !.steps = Append(@, "compare")]
    /\ UNCHANGED <<nPatterns, patIdx, files, fileIdx, decoded, localSecrets, secIdx,
                   deployedSecret, fetchOutcome, globalDifferencesFound,
                   report, summary, cluster, fn, fnResult>>

\* main.go:116-164
Report ==
    /\ pc = "report"
    /\ \E replaceOrder \in Orders(DOMAIN replaceLocalKeys(differences)),
          missingOrder \in Orders(DOMAIN missingLocalKeys(differences)) :
          report' = ReportLines(localSecrets[secIdx], differences, replaceOrder, missingOrder)
    /\ globalDifferencesFound' = IF Len(differences) = 0 THEN globalDifferencesFound ELSE TRUE
    /\ secIdx' = secIdx + 1
    /\ pc' = "secret"
    /\ hist' = [hist EXCEPT !.steps = Append(@, "report")]
    /\ UNCHANGED <<nPatterns, patIdx, files, fileIdx, decoded, localSecrets,
                   deployedSecret, fetchOutcome, differences,
                   summary, exitStatus, exitKind, cluster, diffSeen, fn, fnResult>>

\* the end of the loop over localSecrets: the next file (main.go:92)
NextFile ==
    /\ pc = "secret"
    /\ secIdx > Len(localSecrets)
    /\ pc' = "file"
    /\ fileIdx' = fileIdx + 1
    /\ localSecrets' = <<>>
    /\ secIdx' = 1
    /\ deployedSecret' = Nil
    /\ differences' = <<>>
    /\ report' = <<>>
    /\ fetchOutcome' = "none"
    /\ hist' = [hist EXCEPT !.fetched = <<>>, !.steps = <<>>]
    /\ UNCHANGED <<nPatterns, patIdx, files, decoded, globalDifferencesFound,
                   summary, exitStatus, exitKind, cluster, diffSeen, fn, fnResult>>

SummaryDifferences == "Summary: Differences were found in some secrets."
SummaryMatch == "Summary: All secrets match across environments."

\* main.go:167-174
Finish ==
    /\ pc = "file"
    /\ fileIdx > Len(files)
    /\ IF globalDifferencesFound
       THEN /\ summary' = Append(summary, SummaryDifferences)
            /\ exitStatus' = Ref(ExitDifferences)
       ELSE /\ summary' = Append(summary, SummaryMatch)
            /\ exitStatus' = Ref(ExitSuccess)
    /\ exitKind' = "summary"
    /\ pc' = "exited"
    /\ UNCHANGED <<nPatterns, patIdx, files, fileIdx, decoded, localSecrets, secIdx,
                   deployedSecret, fetchOutcome, differences, globalDifferencesFound,
                   report, cluster, diffSeen, fn, fnResult, hist>>

Next ==
    \/ CreateClient
    \/ GlobPattern
    \/ CheckFiles
    \/ OpenFile
    \/ DecodeDocument
    \/ DecodeError
    \/ DecodeEOF
    \/ Fetch
    \/ Compare
    \/ Report
    \/ NextFile
    \/ Finish

Spec == Init /\ [][Next]_vars

----------------------------------------------------------------------------
(* the pure functions on their own: Init draws the arguments, the action   *)
(* applies the function                                                     *)

Idle ==
    /\ pc = "idle"
    /\ nPatterns = 0
    /\ patIdx = 1
    /\ files = <<>>
    /\ fileIdx = 1
    /\ decoded = 0
    /\ localSecrets = <<>>
    /\ secIdx = 1
    /\ deployedSecret = Nil
    /\ fetchOutcome = "none"
    /\ differences = <<>>
    /\ globalDifferencesFound = FALSE
    /\ report = <<>>
    /\ summary = <<>>
    /\ exitStatus = Nil
    /\ exitKind = "running"
    /\ cluster = [id \in Identities |-> Nil]
    /\ diffSeen = FALSE
    /\ hist = NoHistory

AsLocal(m) == [Kind |-> "Secret", Metadata |-> [Name |-> "db", Namespace |-> "prod"],
               StringData |-> m]
AsDeployed(m) == [Name |-> "db", Namespace |-> "prod", Data |-> m]

InitCompare ==
    /\ Idle
    /\ fn \in [op : {"compareSecrets"}, local : Maps, deployed : Maps]
    /\ fnResult = Nil

CallCompare ==
    /\ fn.op = "compareSecrets"
    /\ fnResult = Nil
    /\ \E order \in Orders(keysSet(AsLocal(fn.local), AsDeployed(fn.deployed))) :
          fnResult' = Ref(compareSecrets(AsLocal(fn.local), AsDeployed(fn.deployed), order))
    /\ UNCHANGED <<progVars, fn>>

SpecCompare == InitCompare /\ [][CallCompare]_vars

\* a second call with the same arguments: the range over the maps
\* (main.go:315, 333) takes an order of its own
CallCompareAgain ==
    /\ fn.op = "compareSecrets"
    /\ Len(fnResult) = 1
    /\ \E order \in Orders(keysSet(AsLocal(fn.local), AsDeployed(fn.deployed))) :
          fnResult' = Append(fnResult,
                             compareSecrets(AsLocal(fn.local), AsDeployed(fn.deployed), order))
    /\ UNCHANGED <<progVars, fn>>

SpecCompareTwice == InitCompare /\ [][CallCompare \/ CallCompareAgain]_vars

InitParse ==
    /\ Idle
    /\ fn \in [op : {"parseYAMLSecrets"},
               docs : UNION {[1..n -> Docs] : n \in 0..MaxDocs},
               undecodable : BOOLEAN]
    /\ fnResult = Nil

CallParse ==
    /\ fn.op = "parseYAMLSecrets"
    /\ fnResult = Nil
    /\ fnResult' = Ref(parseYAMLSecrets(fn.docs, fn.undecodable))
    /\ UNCHANGED <<progVars, fn>>

SpecParse == InitParse /\ [][CallParse]_vars

InitFormat ==
    /\ Idle
    /\ fn \in [op : {"formatYAMLValue"}, value : Strings(MaxLen)]
    /\ fnResult = Nil

CallFormat ==
    /\ fn.op = "formatYAMLValue"
    /\ fnResult = Nil
    /\ fnResult' = Ref(formatYAMLValue(fn.value))
    /\ UNCHANGED <<progVars, fn>>

SpecFormat == InitFormat /\ [][CallFormat]_vars

----------------------------------------------------------------------------
(* Claims *)

Exited == pc = "exited"

\* C1: a run that gets past client creation and pattern expansion exits with
\* status 1 if some compared resource produced a non-empty difference
\* sequence, and with status 0 otherwise (no file matched, nothing compared,
\* everything matched).
C1_ExitStatusIffDifference ==
    (Exited /\ exitKind # "fatal") =>
        exitStatus = Ref(IF diffSeen THEN ExitDifferences ELSE ExitSuccess)

\* C2: the verdict flag starts false, a report step sets it exactly when the
\* difference sequence is non-empty, no step takes it from true to false, and
\* once it is true the process ends with the differences-found status.
C2_VerdictMonotoneToExit ==
    /\ globalDifferencesFound = FALSE
    /\ [][/\ globalDifferencesFound => globalDifferencesFound'
          /\ pc = "report" =>
                globalDifferencesFound' = (globalDifferencesFound \/ Len(differences) > 0)
          /\ pc # "report" => globalDifferencesFound' = globalDifferencesFound
          /\ (globalDifferencesFound /\ pc' = "exited") =>
                exitStatus' = Ref(ExitDifferences)]_vars

\* C3: after a fetch that found no deployed object the diff engine is not
\* invoked and the process does not end: the loop is at the next resource,
\* with nothing compared or reported and the verdict unchanged.
C3_NotFoundSkipsCompare ==
    fetchOutcome = "notfound" =>
        /\ pc = "secret"
        /\ differences = <<>>
        /\ report = <<>>
        /\ exitKind = "running"

C5_FatalStatusDistinct ==
    exitKind = "fatal" =>
        /\ fetchOutcome = "none"
        /\ ~diffSeen
        /\ exitStatus # Ref(ExitSuccess)
        /\ exitStatus # Ref(ExitDifferences)

----------------------------------------------------------------------------
(* Claims about compareSecrets, under SpecCompare *)

Returned == fnResult # Nil
Result == Deref(fnResult)

InBoth(k) == k \in DOMAIN fn.local /\ k \in DOMAIN fn.deployed
OnlyLocal(k) == k \in DOMAIN fn.local /\ k \notin DOMAIN fn.deployed
OnlyDeployed(k) == k \notin DOMAIN fn.local /\ k \in DOMAIN fn.deployed

EntriesOf(k) == {i \in DOMAIN Result : Result[i].Key = k}

\* C6: the keys of the entries compare returns are exactly the keys present
\* in only one map or present in both with unequal values.
C6_CoverageIsSymmetricDifference ==
    (fn.op = "compareSecrets" /\ Returned) =>
        {Result[i].Key : i \in DOMAIN Result} =
            {k \in Keys : OnlyLocal(k) \/ OnlyDeployed(k)
                          \/ (InBoth(k) /\ fn.local[k] # fn.deployed[k])}

\* one key equal in both maps and one key that differs
C6_Witness ==
    /\ fn.op = "compareSecrets" /\ Returned
    /\ \E k \in Keys : InBoth(k) /\ fn.local[k] = fn.deployed[k]
    /\ \E k \in Keys : InBoth(k) /\ fn.local[k] # fn.deployed[k]
    /\ Len(Result) = 1

\* C7: every key of the two maps gets at most one entry, and its class is the
\* one its presence and values give: none when equal in both, ONLY_IN_LOCAL
\* with the local value, ONLY_IN_DEPLOYED with the deployed value, DIFFERENT
\* with both values; no entry has both values absent or both present and equal.
C7_ClassificationExact ==
    (fn.op = "compareSecrets" /\ Returned) =>
        /\ \A i \in DOMAIN Result : Result[i].Key \in DOMAIN fn.local \cup DOMAIN fn.deployed
        /\ \A i \in DOMAIN Result :
              /\ ~(Result[i].Local = Nil /\ Result[i].Deployed = Nil)
              /\ (Result[i].Local # Nil /\ Result[i].Deployed # Nil) =>
                    Deref(Result[i].Local) # Deref(Result[i].Deployed)
        /\ \A k \in DOMAIN fn.local \cup DOMAIN fn.deployed :
              /\ Cardinality(EntriesOf(k)) <= 1
              /\ (InBoth(k) /\ fn.local[k] = fn.deployed[k]) => EntriesOf(k) = {}
              /\ OnlyLocal(k) =>
                    \E i \in EntriesOf(k) :
                        Result[i].Local = Ref(fn.local[k]) /\ Result[i].Deployed = Nil
              /\ OnlyDeployed(k) =>
                    \E i \in EntriesOf(k) :
                        Result[i].Local = Nil /\ Result[i].Deployed = Ref(fn.deployed[k])
              /\ (InBoth(k) /\ fn.local[k] # fn.deployed[k]) =>
                    \E i \in EntriesOf(k) :
                        /\ Result[i].Local = Ref(fn.local[k])
                        /\ Result[i].Deployed = Ref(fn.deployed[k])

\* a key only in local and a key only in deployed
C7_Witness ==
    /\ fn.op = "compareSecrets" /\ Returned
    /\ \E k \in Keys : OnlyLocal(k)
    /\ \E k \in Keys : OnlyDeployed(k)
    /\ Len(Result) = 2

\* C8: compare(M, M) is the empty sequence, for every map M.
C8_CompareSelfIsEmpty ==
    (fn.op = "compareSecrets" /\ Returned /\ fn.local = fn.deployed) => Result = <<>>

\* a map of two keys compared with itself
C8_Witness ==
    /\ fn.op = "compareSecrets" /\ Returned
    /\ fn.local = fn.deployed
    /\ DOMAIN fn.local = Keys
    /\ Result = <<>>

----------------------------------------------------------------------------
(* Claims about the report, under Spec *)

\* the state right after the report of a resource: that resource and the
\* deployed data it was compared with
Reported == pc = "secret" /\ report # <<>>
ReportedLocal == localSecrets[secIdx - 1].StringData
ReportedDeployed == Deref(deployedSecret).Data

DifferentKeys ==
    {k \in DOMAIN ReportedLocal \cap DOMAIN ReportedDeployed :
        ReportedLocal[k] # ReportedDeployed[k]}
OnlyDeployedKeys == DOMAIN ReportedDeployed \ DOMAIN ReportedLocal
OnlyLocalKeys == DOMAIN ReportedLocal \ DOMAIN ReportedDeployed

HeadingAt(heading) == {i \in DOMAIN report : report[i][1] = heading}

\* the lines from a heading to the fence that closes its snippet
SnippetLines(heading) ==
    IF HeadingAt(heading) = {} THEN <<>>
    ELSE LET i == CHOOSE h \in HeadingAt(heading) : TRUE
             j == CHOOSE c \in i..Len(report) :
                      /\ report[c][1] = "fence"
                      /\ \A b \in i..(c - 1) : report[b][1] # "fence"
         IN SubSeq(report, i, j)

IsKeyLine(line) == line[1] = "  key:"
KeyLines(lines) == SelectSeq(lines, IsKeyLine)
KeyValuePairs(lines) == {<<lines[i][2], lines[i][4]>> : i \in {j \in DOMAIN lines : IsKeyLine(lines[j])}}

\* a snippet for the keys ks: absent when ks is empty, else the heading, the
\* fence, the label stringData and then one line per key of ks with the
\* formatted deployed value, closed by the fence
SnippetIsFor(heading, ks) ==
    LET lines == SnippetLines(heading)
    IN /\ Cardinality(HeadingAt(heading)) = IF ks = {} THEN 0 ELSE 1
       /\ Len(KeyLines(lines)) = Cardinality(ks)
       /\ KeyValuePairs(lines) = {<<k, formatYAMLValue(ReportedDeployed[k])>> : k \in ks}
       /\ ks # {} =>
             /\ lines[2][1] = "fence yaml"
             /\ lines[3][1] = "stringData:"
             /\ \A i \in 4..(Len(lines) - 1) : IsKeyLine(lines[i])
             /\ Len(lines) = 4 + Cardinality(ks)

\* C9: the merge snippet has one line per DIFFERENT key and the add snippet
\* one line per ONLY_IN_DEPLOYED key, each with the key's deployed value
\* under the label stringData; an ONLY_IN_LOCAL key is in neither; a snippet
\* is printed if and only if its key set is non-empty.
C9_SnippetsMatchClasses ==
    Reported =>
        /\ SnippetIsFor(MergeHeading, DifferentKeys)
        /\ SnippetIsFor(AddHeading, OnlyDeployedKeys)
        /\ Len(KeyLines(report)) = Cardinality(DifferentKeys) + Cardinality(OnlyDeployedKeys)
        /\ \A i \in DOMAIN report : IsKeyLine(report[i]) => report[i][2] \notin OnlyLocalKeys

\* a report with both snippets
C9_Witness ==
    /\ Reported
    /\ DifferentKeys # {}
    /\ OnlyDeployedKeys # {}
    /\ HeadingAt(MergeHeading) # {}
    /\ HeadingAt(AddHeading) # {}

----------------------------------------------------------------------------
(* Claims about formatYAMLValue, under SpecFormat *)

Formatted == fn.op = "formatYAMLValue" /\ fnResult # Nil

\* the characters of line from the fifth on
Unindent(line) == SubSeq(line, 5, Len(line))

\* C10: a value with a newline is formatted as the line |- followed by the
\* lines of the value, in order and with the empty ones, each behind exactly
\* four spaces; dropping the |- line and the four spaces of every other line
\* gives the value back.
C10_BlockLiteralRoundTrip ==
    (Formatted /\ Contains(fn.value, NL)) =>
        LET out == Split(Deref(fnResult), NL)
            src == Split(fn.value, NL)
        IN /\ out[1] = <<"|", "-">>
           /\ Len(out) = Len(src) + 1
           /\ \A i \in DOMAIN src :
                 /\ Len(out[i + 1]) = 4 + Len(src[i])
                 /\ SubSeq(out[i + 1], 1, 4) = <<SPACE, SPACE, SPACE, SPACE>>
                 /\ Unindent(out[i + 1]) = src[i]
           /\ Join([i \in 1..(Len(out) - 1) |-> Unindent(out[i + 1])], <<NL>>) = fn.value

\* a value with an empty line and a line that starts with a space
C10_Witness ==
    /\ Formatted
    /\ fn.value = <<NL, SPACE, "a">>
    /\ Deref(fnResult) = <<"|", "-", NL, SPACE, SPACE, SPACE, SPACE, NL,
                           SPACE, SPACE, SPACE, SPACE, SPACE, "a">>

\* the double quotes among the first n characters of the value
QuotesBefore(value, n) == Cardinality({j \in 1..n : value[j] = QUOTE})

\* C11: a value without a newline is formatted as the value between two
\* double quotes, with a backslash put before each of its double quotes and
\* every other character, backslashes included, copied as it is; a value
\* without double quotes comes back as the quote, the value, the quote.
C11_QuotedEscapesOnlyQuotes ==
    (Formatted /\ ~Contains(fn.value, NL)) =>
        LET out == Deref(fnResult)
            v == fn.value
            At(i) == i + 1 + QuotesBefore(v, i - 1)
        IN /\ Len(out) = Len(v) + QuotesBefore(v, Len(v)) + 2
           /\ out[1] = QUOTE
           /\ out[Len(out)] = QUOTE
           /\ \A i \in DOMAIN v :
                 IF v[i] = QUOTE
                 THEN out[At(i)] = BACKSLASH /\ out[At(i) + 1] = QUOTE
                 ELSE out[At(i)] = v[i]
           /\ ~Contains(v, QUOTE) => out = <<QUOTE>> \o v \o <<QUOTE>>

\* a value with a backslash and a double quote
C11_Witness ==
    /\ Formatted
    /\ fn.value = <<BACKSLASH, QUOTE, "a">>
    /\ Deref(fnResult) = <<QUOTE, BACKSLASH, BACKSLASH, QUOTE, "a", QUOTE>>

----------------------------------------------------------------------------
(* Claims about parseYAMLSecrets, under SpecParse *)

Parsed == fn.op = "parseYAMLSecrets" /\ fnResult # Nil
ParsedSecrets == Deref(fnResult).secrets

\* what the claim asks of a document
Valid(doc) ==
    /\ doc.Kind \in {"Secret"}
    /\ doc.Metadata.Name # ""
    /\ doc.Metadata.Namespace # ""
    /\ DOMAIN doc.StringData # {}

IsAdmitted(doc) == \E j \in DOMAIN ParsedSecrets : ParsedSecrets[j] = doc

C13_ValidSiblingsAdmitted ==
    Parsed => \A i \in DOMAIN fn.docs : Valid(fn.docs[i]) => IsAdmitted(fn.docs[i])

----------------------------------------------------------------------------
(* Claims about the whole run, under Spec *)

\* C14: a run that processes at least one file prints exactly one summary
\* line, the differences line if the verdict flag is true and the all-match
\* line if it is false, and prints none before it ends.
C14_OneSummaryLine ==
    /\ ~Exited => summary = <<>>
    /\ (Exited /\ exitKind \notin {"fatal", "nofiles"}) =>
          summary = <<IF globalDifferencesFound
                      THEN "Summary: Differences were found in some resources."
                      ELSE "Summary: All secrets match across environments.">>

\* C15: no step of a run changes the deployed secrets of the cluster, on
\* any path: match, difference, not-found, fetch error, rejected document.
C15_ClusterOnlyRead == [][cluster' = cluster]_vars

\* a run that fetched a deployed secret, found a difference, reported it and
\* printed the summary
C15_Witness ==
    /\ Exited
    /\ exitKind = "summary"
    /\ diffSeen
    /\ \E id \in Identities : cluster[id] # Nil

FullSteps == <<"fetch", "compare", "report">>

Occurrences(seq, f) == Cardinality({i \in DOMAIN seq : seq[i] = f})

C19_LoopReachesEnd ==
    (Exited /\ exitKind \notin {"fatal", "nofiles"}) =>
        /\ exitKind = "summary"
        /\ fileIdx > Len(files)
        /\ exitStatus \in {Ref(ExitSuccess), Ref(ExitDifferences)}

----------------------------------------------------------------------------
(* Claim about two calls of compareSecrets, under SpecCompareTwice *)

\* C17: two calls of compareSecrets with the same local map and the same
\* deployed map return the same entries in the same order.
C17_SameOrderTwice ==
    (fn.op = "compareSecrets" /\ Len(fnResult) = 2) => fnResult[1] = fnResult[2]

====
